---- MODULE Spec2Model ----
(***************************************************************************)
(* Model of userlog/password_expiry.py: the pre_save receiver that stamps  *)
(* the password change date, and AccountExpiryBackend.authenticate, which  *)
(* refuses inactive users, users whose password expired and users who have *)
(* not logged in for too long.                                             *)
(*                                                                         *)
(* Python's None is the empty tuple <<>>, any other value v is <<v>>.      *)
(* Time is counted in days.  The user table holds at most one row, the user*)
(* "alice"; every other natural key is not found.                          *)
(***************************************************************************)
EXTENDS Integers, Sequences, FiniteSets, TLC

VARIABLES settings,   \* django.conf.settings: the five settings the module reads
          model,      \* the attributes the AUTH_USER_MODEL class declares
          db,         \* the user table: None or <<row>>
          now,        \* timezone.now(), in days
          last,       \* what the last call of the day was given and what it did
          deactivated \* an "Account has expired" denial happened and the row has not been reactivated since

vars == <<settings, model, db, now, last, deactivated>>

\* Latest day the clock reaches.
MaxNow == 2
\* The expiry period, in days, of a deployment that sets one.
ExpiryPeriod == 1

None == <<>>

DateAttr == "password_change_date"
AltPasswordAttr == "alt_password"

\* Values a password field holds: null, the empty string, a hash.
Passwords == {None, <<"">>, <<"x">>}

\* Natural keys a caller passes.
Usernames == {<<"alice">>, <<"bob">>}

\* hasattr(user, name) for the attributes a user model may lack.
HasAttr(name) == name \in model

\* getattr(user, name)
GetAttr(user, name) == user[name]

\* `x or 0` on an integer setting that may be missing.
OrZero(x) == IF x = None \/ x[1] = 0 THEN 0 ELSE x[1]

\* `x or "password"` on a string setting that may be missing.
OrPassword(x) == IF x = None \/ x[1] = "" THEN "password" ELSE x[1]

\* `x or None` on a string setting that may be missing.
OrNone(x) == IF x = None \/ x[1] = "" THEN None ELSE x

ExpirySettingsGet ==
    [num_days         |-> OrZero(settings.PASSWORD_EXPIRY_DAYS),
     num_warning_days |-> OrZero(settings.PASSWORD_EXPIRY_WARNING_DAYS),
     date_changed     |-> OrNone(settings.AUTH_USER_MODEL_PASSWORD_CHANGE_DATE_ATTR),
     password         |-> OrPassword(settings.AUTH_USER_MODEL_PASSWORD_ATTR),
     account_expiry   |-> OrZero(settings.ACCOUNT_EXPIRY_DAYS)]

EarliestPossibleLogin(attrs) ==
    IF attrs.account_expiry > 0 THEN <<now - attrs.account_expiry>> ELSE None

EarliestPossiblePasswordChange(attrs) ==
    IF attrs.num_days > 0 THEN <<now - attrs.num_days>> ELSE None

\* The functions below return [val, log]: the value and the log records written.

GetPasswordChangeDate(user) ==
    LET attr == ExpirySettingsGet.date_changed IN
    IF attr # None
    THEN IF HasAttr(attr[1])
         THEN [val |-> GetAttr(user, attr[1]), log |-> <<>>]
         ELSE [val |-> None, log |-> <<"warning: no date attribute">>]
    ELSE [val |-> None, log |-> <<>>]

IsPasswordExpiredLe(user) ==
    LET earliest == EarliestPossiblePasswordChange(ExpirySettingsGet) IN
    IF earliest # None
    THEN LET change_date == GetPasswordChangeDate(user) IN
         [val |-> change_date.val # None /\ change_date.val[1] <= earliest[1],
          log |-> change_date.log]
    ELSE [val |-> FALSE, log |-> <<>>]

IsPasswordExpired(user) ==
    LET earliest == EarliestPossiblePasswordChange(ExpirySettingsGet) IN
    IF earliest # None
    THEN LET change_date == GetPasswordChangeDate(user) IN
         [val |-> change_date.val # None /\ change_date.val[1] < earliest[1],
          log |-> change_date.log]
    ELSE [val |-> FALSE, log |-> <<>>]

GetUserLastLogin(user) ==
    IF HasAttr("last_login")
    THEN [val |-> user.last_login, log |-> <<>>]
    ELSE [val |-> None, log |-> <<"warning: no last_login">>]

IsAccountExpiredLe(user) ==
    LET earliest == EarliestPossibleLogin(ExpirySettingsGet) IN
    IF earliest # None
    THEN LET last_login == GetUserLastLogin(user) IN
         [val |-> last_login.val # None /\ last_login.val[1] <= earliest[1],
          log |-> last_login.log]
    ELSE [val |-> FALSE, log |-> <<>>]

IsAccountExpiredEager(user) ==
    LET earliest == EarliestPossibleLogin(ExpirySettingsGet)
        last_login == GetUserLastLogin(user) IN
    IF earliest # None
    THEN [val |-> last_login.val # None /\ last_login.val[1] < earliest[1],
          log |-> last_login.log]
    ELSE [val |-> FALSE, log |-> last_login.log]

IsAccountExpired(user) ==
    LET earliest == EarliestPossibleLogin(ExpirySettingsGet) IN
    IF earliest # None
    THEN LET last_login == GetUserLastLogin(user) IN
         [val |-> last_login.val # None /\ last_login.val[1] < earliest[1],
          log |-> last_login.log]
    ELSE [val |-> FALSE, log |-> <<>>]

\* type(user).objects.get(pk=user.pk): [raised, val]
ObjectsGet(pk) ==
    IF db # None /\ db[1].pk = pk
    THEN [raised |-> "", val |-> db]
    ELSE [raised |-> "DoesNotExist", val |-> None]

\* update_date_changed(user, attrs): [user, reads, raised]
UpdateDateChanged(user, attrs) ==
    LET old_user == ObjectsGet(user.pk)
        old_password == IF user.pk # None
                        THEN GetAttr(old_user.val[1], attrs.password)
                        ELSE None
    IN  IF user.pk # None /\ old_user.raised # ""
        THEN [user |-> user, reads |-> 1, raised |-> old_user.raised]
        ELSE [user   |-> IF old_password # user.password
                         THEN [user EXCEPT ![attrs.date_changed[1]] = <<now>>]
                         ELSE user,
              reads  |-> IF user.pk # None THEN 1 ELSE 0,
              raised |-> ""]

SetPasswordChangedAlways(instance, raw) ==
    LET attrs == ExpirySettingsGet IN
    IF attrs.date_changed # None
    THEN UpdateDateChanged(instance, attrs)
    ELSE [user |-> instance, reads |-> 0, raised |-> ""]

\* set_password_changed(sender, instance, created, raw): the pre_save receiver
SetPasswordChanged(instance, raw) ==
    LET attrs == ExpirySettingsGet IN
    IF ~raw /\ attrs.date_changed # None
    THEN UpdateDateChanged(instance, attrs)
    ELSE [user |-> instance, reads |-> 0, raised |-> ""]

\* The row the host writes for an instance: the fields the model declares,
\* with a primary key assigned to a new record.
RowOf(user) ==
    [user EXCEPT !.pk = <<1>>,
                 !.is_active = IF HasAttr("is_active") THEN @ ELSE TRUE,
                 !.password_change_date = IF HasAttr(DateAttr) THEN @ ELSE None]

\* user.save(): pre_save is sent, then the row is written.
\* [user, db, reads, saves, raised]
ModelSave(user, raw) ==
    LET hook == SetPasswordChanged(user, raw) IN
    IF hook.raised # ""
    THEN [user |-> hook.user, db |-> db, reads |-> hook.reads, saves |-> 0,
          raised |-> hook.raised]
    ELSE [user |-> hook.user, db |-> <<RowOf(hook.user)>>, reads |-> hook.reads,
          saves |-> 1, raised |-> ""]

\* UserModel._default_manager.get_by_natural_key(username): [raised, val]
GetByNaturalKey(username) ==
    IF db # None /\ username # None /\ db[1].username = username[1]
    THEN [raised |-> "", val |-> db]
    ELSE [raised |-> "DoesNotExist", val |-> None]

LookupUserUncaught(username, kwargs) ==
    LET name == IF username = None THEN kwargs ELSE username IN
    GetByNaturalKey(name)

\* AccountExpiryBackend._lookup_user: [raised, val]
LookupUser(username, kwargs) ==
    LET name == IF username = None THEN kwargs ELSE username
        got == GetByNaturalKey(name)
    IN  IF got.raised = "DoesNotExist" THEN [raised |-> "", val |-> None] ELSE got

IsInactiveNever(user) == FALSE

\* hasattr(user, "is_active") and not user.is_active
IsInactive(user) == HasAttr("is_active") /\ ~user.is_active

Outcome(result, d, log, signals, reads, saves) ==
    [result |-> result, db |-> d, log |-> log, signals |-> signals,
     reads |-> reads, saves |-> saves]

AuthenticateAccountFirst(username, kwargs) ==
    LET found == LookupUser(username, kwargs) IN
    IF found.raised # ""
    THEN Outcome(found.raised, db, <<>>, <<>>, 0, 0)
    ELSE IF found.val # None
    THEN LET user == found.val[1]
             pw == IsPasswordExpired(user)
             acc == IsAccountExpired(user)
             saved == ModelSave([user EXCEPT !.is_active = FALSE], FALSE)
         IN  IF IsInactive(user)
             THEN Outcome("Account is not active", db, <<>>, <<>>, 0, 0)
             ELSE IF acc.val
             THEN IF saved.raised # ""
                  THEN Outcome(saved.raised, saved.db,
                               acc.log \o <<"info: stale">>,
                               <<>>, saved.reads, saved.saves)
                  ELSE Outcome("Account has expired", saved.db,
                               acc.log \o <<"info: stale">>,
                               <<"account_has_expired">>, saved.reads, saved.saves)
             ELSE IF pw.val
             THEN Outcome("Password has expired", db,
                          acc.log \o pw.log \o <<"info: password expired">>,
                          <<"password_has_expired">>, 0, 0)
             ELSE Outcome("None", db, acc.log \o pw.log, <<>>, 0, 0)
    ELSE Outcome("None", db, <<>>, <<>>, 0, 0)

\* AccountExpiryBackend.authenticate: the result is "None" for the return
\* value None, otherwise the message of the exception raised.
Authenticate(username, kwargs) ==
    LET found == LookupUser(username, kwargs) IN
    IF found.raised # ""
    THEN Outcome(found.raised, db, <<>>, <<>>, 0, 0)
    ELSE IF found.val # None
    THEN LET user == found.val[1]
             pw == IsPasswordExpired(user)
             acc == IsAccountExpired(user)
             saved == ModelSave([user EXCEPT !.is_active = FALSE], FALSE)
         IN  IF IsInactive(user)
             THEN Outcome("Account is not active", db, <<>>, <<>>, 0, 0)
             ELSE IF pw.val
             THEN Outcome("Password has expired", db,
                          pw.log \o <<"info: password expired">>,
                          <<"password_has_expired">>, 0, 0)
             ELSE IF acc.val
             THEN IF saved.raised # ""
                  THEN Outcome(saved.raised, saved.db,
                               pw.log \o acc.log \o <<"info: stale">>,
                               <<>>, saved.reads, saved.saves)
                  ELSE Outcome("Account has expired", saved.db,
                               pw.log \o acc.log \o <<"info: stale">>,
                               <<"account_has_expired">>, saved.reads, saved.saves)
             ELSE Outcome("None", db, pw.log \o acc.log, <<>>, 0, 0)
    ELSE Outcome("None", db, <<>>, <<>>, 0, 0)

NoCall ==
    [op |-> "none", username |-> None, kwargs |-> None, raw |-> FALSE,
     created |-> FALSE, pwDiffers |-> FALSE, inDate |-> None, outDate |-> None, result |-> "None",
     log |-> <<>>, signals |-> <<>>, reads |-> 0, saves |-> 0]

----
\* The state after start-up: an empty user table, settings and user model
\* as the deployment chose them.

DaysSettings == {None, <<-1>>, <<0>>, <<ExpiryPeriod>>}

Init ==
    /\ settings \in
         [PASSWORD_EXPIRY_DAYS : DaysSettings,
          PASSWORD_EXPIRY_WARNING_DAYS : {None},
          ACCOUNT_EXPIRY_DAYS : {None, <<ExpiryPeriod>>},
          AUTH_USER_MODEL_PASSWORD_CHANGE_DATE_ATTR : {None, <<DateAttr>>},
          AUTH_USER_MODEL_PASSWORD_ATTR : {None, <<AltPasswordAttr>>}]
    /\ model \in SUBSET {"is_active", "last_login", DateAttr}
    /\ (DateAttr \in model => settings.AUTH_USER_MODEL_PASSWORD_CHANGE_DATE_ATTR # None)
    /\ db = None
    /\ now = 0
    /\ last = NoCall
    /\ deactivated = FALSE

\* A login attempt reaches the backend.
Login(username, kwargs) ==
    LET out == Authenticate(username, kwargs) IN
    /\ db' = out.db
    /\ last' = [NoCall EXCEPT !.op = "authenticate", !.username = username,
                              !.kwargs = kwargs, !.result = out.result,
                              !.log = out.log, !.signals = out.signals,
                              !.reads = out.reads, !.saves = out.saves]
    /\ deactivated' = (deactivated \/ out.result = "Account has expired")
    /\ UNCHANGED <<settings, model, now>>

\* Values of the alternate password field, when the settings name one.
AltPasswords ==
    IF ExpirySettingsGet.password = AltPasswordAttr THEN {None, <<"x">>} ELSE {None}

\* The stored user with last_login set, as saved after a login.
LoggedIn ==
    IF db # None /\ HasAttr("last_login")
    THEN {[db[1] EXCEPT !.last_login = <<now>>]}
    ELSE {}

\* The instances the host saves: a new user who never logged in; the stored
\* user with password or active flag edited; the stored user after a login.
Instances ==
    IF db = None
    THEN [pk : {None, <<1>>}, username : {"alice"}, password : Passwords,
          alt_password : AltPasswords, is_active : BOOLEAN,
          last_login : {None}, password_change_date : {None}]
    ELSE [pk : {db[1].pk}, username : {"alice"}, password : Passwords,
          alt_password : AltPasswords,
          is_active : IF HasAttr("is_active") THEN BOOLEAN ELSE {TRUE},
          last_login : {db[1].last_login},
          password_change_date : {db[1].password_change_date}]
         \cup LoggedIn

\* The incoming value of the configured password field differs from the
\* stored one.
PasswordDiffers(instance) ==
    /\ db # None
    /\ GetAttr(instance, ExpirySettingsGet.password)
         # GetAttr(db[1], ExpirySettingsGet.password)

\* The host saves a user record (a form, the admin, update_last_login, or
\* a fixture load when raw).
Save(instance, raw) ==
    LET out == ModelSave(instance, raw) IN
    /\ db' = out.db
    /\ last' = [NoCall EXCEPT !.op = "save", !.raw = raw,
                              !.created = (instance.pk = None),
                              !.pwDiffers = PasswordDiffers(instance),
                              !.inDate = instance.password_change_date,
                              !.outDate = out.user.password_change_date,
                              !.result = IF out.raised = "" THEN "None" ELSE out.raised,
                              !.reads = out.reads, !.saves = out.saves]
    /\ deactivated' = (deactivated /\ ~(HasAttr("is_active") /\ out.db # None
                                         /\ out.db[1].is_active))
    /\ UNCHANGED <<settings, model, now>>

\* A day passes; the record of the last call is kept for the day of the call.
Tick ==
    /\ now < MaxNow
    /\ now' = now + 1
    /\ last' = NoCall
    /\ UNCHANGED <<settings, model, db, deactivated>>

Next ==
    \/ \E username \in Usernames : Login(username, None)
    \/ \E kwargs \in {None, <<"alice">>} : Login(None, kwargs)
    \/ \E instance \in Instances, raw \in BOOLEAN : Save(instance, raw)
    \/ Tick

Spec == Init /\ [][Next]_vars

----
\* Vocabulary of the properties, stated on the settings and the stored row
\* rather than through the functions above.

LoginStep == last'.op = "authenticate" /\ now' = now
SaveStep == last'.op = "save" /\ now' = now

\* The natural key a call resolves: the username, else the keyword argument.
KeyOf(call) == IF call.username = None THEN call.kwargs ELSE call.username

\* The call made in this step finds the stored user.
Finds == db # None /\ KeyOf(last') = <<db[1].username>>

Days(x) == IF x = None THEN 0 ELSE x[1]
PasswordDays == Days(settings.PASSWORD_EXPIRY_DAYS)
AccountDays == Days(settings.ACCOUNT_EXPIRY_DAYS)
DateConfigured == settings.AUTH_USER_MODEL_PASSWORD_CHANGE_DATE_ATTR # None

Inactive(u) == "is_active" \in model /\ ~u.is_active

PasswordOld(u) ==
    /\ PasswordDays > 0
    /\ DateConfigured
    /\ DateAttr \in model
    /\ u.password_change_date # None
    /\ u.password_change_date[1] < now - PasswordDays

LoginOld(u) ==
    /\ AccountDays > 0
    /\ "last_login" \in model
    /\ u.last_login # None
    /\ u.last_login[1] < now - AccountDays

Count(seq, x) == Cardinality({i \in DOMAIN seq : seq[i] = x})

Results == {"None", "Account is not active", "Password has expired", "Account has expired"}

\* C1: authenticate decides by the first check that trips, in the order
\* inactive flag, password expiry, inactivity expiry, and does only that
\* check's side effects: an inactive user is refused with no signal and no
\* save; an active user with an expired password is refused with the
\* password_has_expired signal, and is neither saved nor deactivated nor
\* reported as a stale account even when the last login is too old as well;
\* when no check trips the result is None.  Nothing else is ever returned.
C1_FirstCheckDecides ==
    [][LoginStep /\ Finds =>
         LET u == db[1] IN
         /\ last'.result \in Results
         /\ Inactive(u) =>
              /\ last'.result = "Account is not active"
              /\ last'.signals = <<>> /\ last'.saves = 0 /\ db' = db
         /\ (~Inactive(u) /\ PasswordOld(u)) =>
              /\ last'.result = "Password has expired"
              /\ last'.signals = <<"password_has_expired">>
              /\ last'.saves = 0 /\ db' = db
         /\ (~Inactive(u) /\ ~PasswordOld(u) /\ ~LoginOld(u)) =>
              /\ last'.result = "None"
              /\ last'.signals = <<>> /\ last'.saves = 0 /\ db' = db]_vars

\* A login refused for the expired password although the last login is too
\* old as well; the user is still active.
C1_Witness ==
    /\ last.op = "authenticate" /\ last.result = "Password has expired"
    /\ db # None /\ db[1].is_active /\ "is_active" \in model
    /\ PasswordOld(db[1]) /\ LoginOld(db[1])

\* C2: is_password_expired(user) is truthy exactly when PASSWORD_EXPIRY_DAYS
\* is positive, the change date attribute is configured, the user has it
\* with a value, and the value is strictly before now minus the expiry days.
C2_PasswordExpiredExactly ==
    db # None =>
      \A d \in {None} \cup {<<t>> : t \in 0..MaxNow} :
        LET u == [db[1] EXCEPT !.password_change_date =
                                  IF DateAttr \in model THEN d ELSE None]
        IN  IsPasswordExpired(u).val <=> PasswordOld(u)

\* A user whose password was changed exactly at the cutoff logs in and is
\* not refused for the password.
C2_Witness ==
    /\ last.op = "authenticate" /\ last.result = "None"
    /\ db # None /\ PasswordDays > 0 /\ DateAttr \in model
    /\ db[1].password_change_date = <<now - PasswordDays>>

\* C3: a save (not raw) of a stored user, with the change date attribute
\* configured, leaves the change date alone when the incoming value of the
\* configured password field equals the stored one, and sets it to now when
\* they differ.
C3_RoundTrip ==
    [][(SaveStep /\ ~last'.raw /\ ~last'.created /\ last'.result = "None"
        /\ DateConfigured) =>
         IF last'.pwDiffers
         THEN last'.outDate = <<now>>
         ELSE last'.outDate = last'.inDate]_vars

\* C4: for an active user with a last_login, ACCOUNT_EXPIRY_DAYS positive and
\* the password not expired: a last login strictly before the cutoff gives
\* "Account has expired", the stored row inactive, one save and the
\* account_has_expired signal exactly once; otherwise nothing trips and
\* nothing is saved.
C4_StaleAccountDeactivated ==
    [][(LoginStep /\ Finds /\ "is_active" \in model /\ db[1].is_active
        /\ "last_login" \in model /\ AccountDays > 0 /\ ~PasswordOld(db[1])) =>
         IF db[1].last_login # None /\ db[1].last_login[1] < now - AccountDays
         THEN /\ last'.result = "Account has expired"
              /\ db' # None /\ ~db'[1].is_active
              /\ last'.saves = 1
              /\ Count(last'.signals, "account_has_expired") = 1
         ELSE /\ last'.result = "None"
              /\ last'.saves = 0 /\ db' = db /\ last'.signals = <<>>]_vars

C4_Witness ==
    /\ last.op = "authenticate" /\ last.result = "Account has expired"
    /\ last.saves = 1 /\ "is_active" \in model
    /\ db # None /\ ~db[1].is_active

\* C5: a raw save never stamps the change date, for a new or a stored
\* record, whatever the incoming password, and makes no read of the stored
\* record.
C5_RawNeverStamps ==
    [][(SaveStep /\ last'.raw) =>
         /\ last'.outDate = last'.inDate
         /\ last'.reads = 0]_vars

\* A raw save of a stored user with a different password, the change date
\* attribute being configured and last stamped on an earlier day.
C5_Witness ==
    /\ last.op = "save" /\ last.raw /\ last.pwDiffers /\ ~last.created
    /\ DateConfigured /\ last.inDate # <<now>>

\* C6 as stated: without a last_login attribute the inactivity check never
\* trips, and every call that finds the user logs the warning once.
C6_WarnsEveryCall ==
    [][(LoginStep /\ Finds /\ "last_login" \notin model) =>
         /\ last'.result # "Account has expired"
         /\ last'.saves = 0 /\ db' = db
         /\ Count(last'.log, "warning: no last_login") = 1]_vars

\* C6, amended: without a last_login attribute the inactivity check never
\* trips, and the warning is logged exactly once by a call that reaches the
\* inactivity check with ACCOUNT_EXPIRY_DAYS positive (the user is found, not
\* inactive, the password not expired), and not at all by any other call.
C6_WarnsWhenChecked ==
    [][(LoginStep /\ "last_login" \notin model) =>
         /\ last'.result # "Account has expired"
         /\ last'.saves = 0 /\ db' = db
         /\ Count(last'.log, "warning: no last_login") =
              IF Finds /\ ~Inactive(db[1]) /\ ~PasswordOld(db[1]) /\ AccountDays > 0
              THEN 1 ELSE 0]_vars

C6_Witness ==
    /\ last.op = "authenticate" /\ "last_login" \notin model
    /\ AccountDays > 0 /\ now > AccountDays
    /\ last.result = "None"
    /\ last.log = <<"warning: no last_login">>

\* C7: when no user has the given natural key, also when no key is given,
\* authenticate returns None without raising, changes no row, sends no
\* signal and logs no warning.
C7_NotFoundAbstains ==
    [][(LoginStep /\ ~Finds) =>
         /\ last'.result = "None"
         /\ db' = db
         /\ last'.signals = <<>>
         /\ last'.log = <<>>]_vars

\* A call with no username at all while a user is stored.
C7_Witness ==
    /\ last.op = "authenticate" /\ last.username = None /\ last.kwargs = None
    /\ db # None /\ last.result = "None"

\* C8: a save (not raw) of a new record, with the change date attribute
\* configured, stamps the change date with now whatever the incoming
\* password, a null one included, and reads nothing.
C8_NewRecordStamped ==
    [][(SaveStep /\ ~last'.raw /\ last'.created /\ DateConfigured) =>
         /\ last'.outDate = <<now>>
         /\ last'.reads = 0]_vars

\* C9: the save made when a stale account is deactivated changes only the
\* active flag of the stored row: password and change date stay as they were.
C9_DeactivationOnlyFlipsFlag ==
    [][(LoginStep /\ last'.result = "Account has expired") =>
         /\ db'[1].password = db[1].password
         /\ db'[1].alt_password = db[1].alt_password
         /\ db'[1].password_change_date = db[1].password_change_date]_vars

\* C10: with an active flag on the model, after an "Account has expired"
\* denial every later call for the user is refused as inactive, saves
\* nothing and sends no signal while the stored flag stays false; so the
\* account_has_expired signal is sent only by a call that deactivates.
C10_StaysInactive ==
    [][(LoginStep /\ Finds /\ "is_active" \in model) =>
         /\ (deactivated /\ ~db[1].is_active) =>
              /\ last'.result = "Account is not active"
              /\ last'.saves = 0 /\ last'.signals = <<>> /\ db' = db
         /\ Count(last'.signals, "account_has_expired") > 0 =>
              /\ ~deactivated
              /\ db[1].is_active /\ ~db'[1].is_active
              /\ Count(last'.signals, "account_has_expired") = 1]_vars

C10_Witness ==
    /\ deactivated /\ "is_active" \in model
    /\ last.op = "authenticate" /\ last.result = "Account is not active"
    /\ db # None /\ LoginOld(db[1])

====
